---- MODULE Spec2Model ----
(***************************************************************************)
(* The leveldb blobstore writer of gondola: a file is cut into fixed-size  *)
(* chunks, every chunk is stored under its sha1 in the chunk space, and    *)
(* Close stores the file's record in the files space.  Two versions of the *)
(* writer are modelled: the batched one (blobstore/driver/leveldb/wfile.go)*)
(* and the unbatched one it was derived from (unnamed/part_002).           *)
(* Sessions run one after the other in Spec and SpecSeeded, and as        *)
(* goroutines that interleave at every shared access in SpecPool and      *)
(* SpecMisuse.  Two more parts of the repository have a specification of  *)
(* their own: textutil.SplitFieldsOptions (unnamed/part_003, SpecSplit)   *)
(* and orm.Register (unnamed/part_001, SpecOrm).                          *)
(***************************************************************************)
EXTENDS Integers, Sequences, FiniteSets, TLC

(* ---------------------------------------------------------------------- *)
(* Bounds and program constants                                           *)
(* ---------------------------------------------------------------------- *)

\* wfile.go:17 / part_002:9 (256 KiB in the source, scaled down)
chunkSize == 2
\* wfile.go:18 (4 MiB in the source, scaled down: reached by the second
\* queued chunk, or by a chunk and a one-byte remainder)
maxBatchSize == 3
\* crypto/sha1.Size, used at wfile.go:87 / part_002:77
sha1Size == 20

\* the most bytes a caller passes to the Write calls of one session
MaxLen == 4
\* the most engine calls that fail in one behaviour
MaxFaults == 1

Byte == {0, 1}
Callers == {1, 2}
Ids == {"a", "b"}

Min(a, b) == IF a < b THEN a ELSE b

\* all byte strings of length lo..hi
Strings(lo, hi) == UNION {[1..n -> Byte] : n \in lo..hi}

(* ---------------------------------------------------------------------- *)
(* Pure helpers: hashing and the record codec                             *)
(* ---------------------------------------------------------------------- *)

RECURSIVE Sha1Code(_)
\* An injective numbering of the byte strings: the stand-in for the
\* collision resistance of sha1 (distinct inputs, distinct digests).
Sha1Code(data) ==
  IF data = <<>> THEN 0
  ELSE (Head(data) + 1) + 3 * Sha1Code(Tail(data))

\* sha1.Sum(data): a digest of sha1.Size bytes
Sha1(data) ==
  [i \in 1..sha1Size |->
     IF i = 1 THEN Sha1Code(data) % 256
     ELSE IF i = 2 THEN (Sha1Code(data) \div 256) % 256
     ELSE 0]

\* littleEndian.PutUint32(data, uint32(x)): the four bytes written.  The
\* lengths converted are below 2^31, where uint32(x) keeps the value.
PutUint32(x) ==
  <<x % 256, (x \div 256) % 256, (x \div 65536) % 256, (x \div 16777216) % 256>>

\* littleEndian.Uint32(data[pos:]), pos counted from 1
Uint32At(data, pos) ==
  data[pos] + 256 * data[pos + 1] + 65536 * data[pos + 2] + 16777216 * data[pos + 3]

\* copy(dst, src) in Go: min(len(dst), len(src)) bytes of src over the
\* front of dst.  Returns the new dst.
Copy(dst, src) ==
  LET n == Min(Len(dst), Len(src))
  IN [i \in 1..Len(dst) |-> IF i <= n THEN src[i] ELSE dst[i]]

RECURSIVE EncodeEntriesLenZero(_)
\* the entry loop with the length prefix written as 0
EncodeEntriesLenZero(chunks) ==
  IF chunks = <<>> THEN <<>>
  ELSE PutUint32(0) \o Head(chunks) \o EncodeEntriesLenZero(Tail(chunks))

RECURSIVE EncodeEntries(_)
\* the loop of Close over f.chunks: for each element, a uint32 holding
\* len(element) and then the element itself.  The elements of f.chunks
\* are the hashes.
EncodeEntries(chunks) ==
  IF chunks = <<>> THEN <<>>
  ELSE PutUint32(Len(Head(chunks))) \o Head(chunks) \o EncodeEntries(Tail(chunks))

RECURSIVE DropRepeats(_)
\* a chunk list without the hashes that repeat the one before them
DropRepeats(chunks) ==
  IF Len(chunks) < 2 THEN chunks
  ELSE IF chunks[1] = chunks[2] THEN DropRepeats(Tail(chunks))
  ELSE <<chunks[1]>> \o DropRepeats(Tail(chunks))

\* a chunk-list record that lists a repeated hash once
EncodeListNoRepeat(chunks) ==
  PutUint32(Len(DropRepeats(chunks))) \o EncodeEntries(DropRepeats(chunks))

\* the chunk-list record built by Close
EncodeList(chunks) == PutUint32(Len(chunks)) \o EncodeEntries(chunks)

\* the inline record built by Close in the batched writer: uint32(0) + rem
EncodeInline(rem) == PutUint32(0) \o rem

\* the inline record built by Close in the unbatched writer:
\* make([]byte, 4 + offset); PutUint32(data, 0); copy(data[4:], f.buf)
EncodeInlineBuf(buf, offset) ==
  PutUint32(0) \o Copy([i \in 1..offset |-> 0], buf)

(* ---------------------------------------------------------------------- *)
(* The key-value engine (external): Get / Put / Write(batch) on two key   *)
(* spaces.  A space is a function from its stored keys to their values.   *)
(* An engine call may fail; a failed Put or Write stores nothing.         *)
(*                                                                        *)
(* Handlers are pure operators over a machine record m:                   *)
(*   m.f      the wfile the handler runs on                               *)
(*   m.chunks the chunk space, m.files the files space                    *)
(*   m.pool   wfilesPool                                                  *)
(*   m.k      engine calls made so far by this handler invocation         *)
(*   m.fail   which of these calls (by number) the engine fails           *)
(*   m.err    the error the handler returns ("nil" when none)             *)
(*   m.n      the byte count Write returns                                *)
(*   m.g      history of the session, read only by the properties         *)
(* ---------------------------------------------------------------------- *)

ErrNil == "nil"
ErrEngine == "engine error"
ErrCollision == "hash collision"

\* the engine fails the call that is about to be made
Fails(m) == (m.k + 1) \in m.fail

DbPut(db, key, val) ==
  [x \in (DOMAIN db) \cup {key} |-> IF x = key THEN val ELSE db[x]]

RECURSIVE ApplyBatch(_, _)
\* chunks.Write(batch): every queued pair, in order
ApplyBatch(db, batch) ==
  IF batch = <<>> THEN db
  ELSE ApplyBatch(DbPut(db, Head(batch)[1], Head(batch)[2]), Tail(batch))

\* one chunk handled by WriteChunk / writeChunk, for the properties
Event(hash, data, get, queued) ==
  [hash |-> hash, len |-> Len(data), get |-> get, queued |-> queued]

(* ---------------------------------------------------------------------- *)
(* The batched writer: blobstore/driver/leveldb/wfile.go                  *)
(* ---------------------------------------------------------------------- *)

\* the pairs of a batch whose write failed, for the properties: the hash,
\* how many chunks the session had handled, whether the hash was stored
Dropped(m) ==
  {[hash |-> m.f.batch[i][1], at |-> Len(m.g.ev),
    had |-> m.f.batch[i][1] \in DOMAIN m.chunks] : i \in 1..Len(m.f.batch)}

\* a flushBatch that keeps the batch when the write fails
flushBatchKeep(m) ==
  LET ok == ~Fails(m)
  IN [m EXCEPT !.k = @ + 1,
               !.chunks = IF ok THEN ApplyBatch(@, m.f.batch) ELSE @,
               !.f.batchSize = IF ok THEN 0 ELSE @,
               !.f.batch = IF ok THEN <<>> ELSE @,
               !.err = IF ok THEN ErrNil ELSE ErrEngine,
               !.g.flushes = @ + 1,
               !.g.flushed = IF ok THEN @ + Len(m.f.batch) ELSE @,
               !.g.dropped = IF ok THEN @ ELSE @ \cup Dropped(m)]

\* wfile.flushBatch: write the batch, then reset it whatever the outcome
flushBatch(m) ==
  LET ok == ~Fails(m)
  IN [m EXCEPT !.k = @ + 1,
               !.chunks = IF ok THEN ApplyBatch(@, m.f.batch) ELSE @,
               !.f.batchSize = 0,
               !.f.batch = <<>>,
               !.err = IF ok THEN ErrNil ELSE ErrEngine,
               !.g.flushes = @ + 1,
               !.g.flushed = IF ok THEN @ + Len(m.f.batch) ELSE @,
               !.g.dropped = IF ok THEN @ ELSE @ \cup Dropped(m)]

\* a WriteChunk that returns the engine's error from the existence check
WriteChunkStrict(m, data) ==
  LET hash == Sha1(data)
      m1 == [m EXCEPT !.k = @ + 1, !.f.chunks = Append(@, hash)]
  IN IF Fails(m)
     THEN [m1 EXCEPT !.err = ErrEngine,
                     !.g.ev = Append(@, Event(hash, data, "fault", FALSE))]
     ELSE IF hash \in DOMAIN m.chunks
     THEN IF Len(m.chunks[hash]) # Len(data)
          THEN [m1 EXCEPT !.err = ErrCollision,
                          !.g.ev = Append(@, Event(hash, data, "collision", FALSE))]
          ELSE [m1 EXCEPT !.g.ev = Append(@, Event(hash, data, "hit", FALSE))]
     ELSE LET m2 == [m1 EXCEPT !.f.batch = Append(@, <<hash, data>>),
                               !.f.batchSize = @ + Len(data),
                               !.g.ev = Append(@, Event(hash, data, "miss", TRUE))]
          IN IF m2.f.batchSize >= maxBatchSize THEN flushBatch(m2) ELSE m2

\* a WriteChunk that returns before recording the hash of a known chunk
WriteChunkSkipKnown(m, data) ==
  LET hash == Sha1(data)
      found == ~Fails(m) /\ hash \in DOMAIN m.chunks
      m1 == [m EXCEPT !.k = @ + 1]
  IN IF found
     THEN [m1 EXCEPT !.g.ev = Append(@, Event(hash, data, "hit", FALSE))]
     ELSE LET m2 == [m1 EXCEPT !.f.chunks = Append(@, hash),
                               !.f.batch = Append(@, <<hash, data>>),
                               !.f.batchSize = @ + Len(data),
                               !.g.ev = Append(@, Event(hash, data,
                                          IF Fails(m) THEN "fault" ELSE "miss", TRUE))]
          IN IF m2.f.batchSize >= maxBatchSize THEN flushBatch(m2) ELSE m2

\* a WriteChunk that queues the chunk although it was found
WriteChunkNoDedup(m, data) ==
  LET hash == Sha1(data)
      found == ~Fails(m) /\ hash \in DOMAIN m.chunks
      m1 == [m EXCEPT !.k = @ + 1, !.f.chunks = Append(@, hash)]
      m2 == [m1 EXCEPT !.f.batch = Append(@, <<hash, data>>),
                       !.f.batchSize = @ + Len(data),
                       !.g.ev = Append(@, Event(hash, data,
                                  IF found THEN "hit" ELSE IF Fails(m) THEN "fault" ELSE "miss",
                                  TRUE))]
  IN IF m2.f.batchSize >= maxBatchSize THEN flushBatch(m2) ELSE m2

\* a WriteChunk that flushes only above the threshold
WriteChunkLate(m, data) ==
  LET hash == Sha1(data)
      found == ~Fails(m) /\ hash \in DOMAIN m.chunks
      m1 == [m EXCEPT !.k = @ + 1, !.f.chunks = Append(@, hash)]
  IN IF found
     THEN IF Len(m.chunks[hash]) # Len(data)
          THEN [m1 EXCEPT !.err = ErrCollision,
                          !.g.ev = Append(@, Event(hash, data, "collision", FALSE))]
          ELSE [m1 EXCEPT !.g.ev = Append(@, Event(hash, data, "hit", FALSE))]
     ELSE LET m2 == [m1 EXCEPT !.f.batch = Append(@, <<hash, data>>),
                               !.f.batchSize = @ + Len(data),
                               !.g.ev = Append(@, Event(hash, data,
                                          IF Fails(m) THEN "fault" ELSE "miss", TRUE))]
          IN IF m2.f.batchSize > maxBatchSize + chunkSize THEN flushBatch(m2) ELSE m2

\* wfile.WriteChunk: record the hash; if Get returns no error the chunk is
\* known (a stored value of another length is a collision); on any error
\* of Get, not-found or not, queue the chunk and flush at the threshold
WriteChunk(m, data) ==
  LET hash == Sha1(data)
      found == ~Fails(m) /\ hash \in DOMAIN m.chunks
      m1 == [m EXCEPT !.k = @ + 1, !.f.chunks = Append(@, hash)]
  IN IF found
     THEN IF Len(m.chunks[hash]) # Len(data)
          THEN [m1 EXCEPT !.err = ErrCollision,
                          !.g.ev = Append(@, Event(hash, data, "collision", FALSE))]
          ELSE [m1 EXCEPT !.g.ev = Append(@, Event(hash, data, "hit", FALSE))]
     ELSE LET m2 == [m1 EXCEPT !.f.batch = Append(@, <<hash, data>>),
                               !.f.batchSize = @ + Len(data),
                               !.g.ev = Append(@, Event(hash, data,
                                          IF Fails(m) THEN "fault" ELSE "miss", TRUE))]
          IN IF m2.f.batchSize >= maxBatchSize THEN flushBatch(m2) ELSE m2

\* the chunker's buffer with p copied in at the offset: copy(buf[offset:], p)
CopyAt(buf, offset, p) ==
  [i \in 1..Len(buf) |->
     IF i > offset /\ i - offset <= Len(p) THEN p[i - offset] ELSE buf[i]]

\* Chunker.Remaining(): the bytes accumulated but not yet a complete chunk
Remaining(f) == SubSeq(f.buf, 1, f.offset)

\* Chunker.Flush(): hand the remaining bytes as one final chunk to WriteChunk
ChunkerFlush(m) ==
  IF m.f.offset > 0
  THEN WriteChunk([m EXCEPT !.f.offset = 0], Remaining(m.f))
  ELSE m

RECURSIVE ChunkerWrite(_, _)
\* wfile.Write of the batched writer is the embedded Chunker's Write: feed
\* p, and each time chunkSize bytes are accumulated emit them to WriteChunk
\* and start over; stop at the first error
ChunkerWrite(m, p) ==
  IF p = <<>> THEN m
  ELSE LET c == Min(chunkSize - m.f.offset, Len(p))
           rest == SubSeq(p, c + 1, Len(p))
           m1 == [m EXCEPT !.f.buf = CopyAt(@, m.f.offset, SubSeq(p, 1, c)),
                           !.f.offset = @ + c,
                           !.n = @ + c]
       IN IF m1.f.offset = chunkSize
          THEN LET m2 == WriteChunk([m1 EXCEPT !.f.offset = 0], m1.f.buf)
               IN IF m2.err # ErrNil THEN m2 ELSE ChunkerWrite(m2, rest)
          ELSE ChunkerWrite(m1, rest)

\* f.drv.files.Put(id, data)
FilesPut(m, id, data) ==
  LET ok == ~Fails(m)
  IN [m EXCEPT !.k = @ + 1,
               !.files = IF ok THEN DbPut(@, id, data) ELSE @,
               !.err = IF ok THEN ErrNil ELSE ErrEngine,
               !.g.puts = @ + 1]

\* a Close that drops the remainder of a chunked file
CloseNoRemainder(m) ==
  LET rem == Remaining(m.f)
  IN IF Len(rem) > 0 /\ Len(m.f.chunks) = 0
     THEN FilesPut([m EXCEPT !.pool = Append(@, m.f)], m.f.id, EncodeInline(rem))
     ELSE LET m2 == flushBatch(m)
          IN IF m2.err # ErrNil THEN m2
             ELSE FilesPut([m2 EXCEPT !.pool = Append(@, m2.f)],
                           m2.f.id, EncodeList(m2.f.chunks))

\* a Close that stores the remainder inline whatever was chunked before
CloseInlineAlways(m) ==
  LET rem == Remaining(m.f)
  IN IF Len(rem) > 0
     THEN FilesPut([m EXCEPT !.pool = Append(@, m.f)], m.f.id, EncodeInline(rem))
     ELSE LET m2 == flushBatch(m)
          IN IF m2.err # ErrNil THEN m2
             ELSE FilesPut([m2 EXCEPT !.pool = Append(@, m2.f)],
                           m2.f.id, EncodeList(m2.f.chunks))

\* a Close that puts the record before the final batch write
CloseRecordFirst(m) ==
  LET rem == Remaining(m.f)
  IN IF Len(rem) > 0 /\ Len(m.f.chunks) = 0
     THEN FilesPut([m EXCEPT !.pool = Append(@, m.f)], m.f.id, EncodeInline(rem))
     ELSE LET m1 == IF Len(rem) > 0 THEN ChunkerFlush(m) ELSE m
          IN IF m1.err # ErrNil THEN m1
             ELSE LET m2 == FilesPut(m1, m1.f.id, EncodeList(m1.f.chunks))
                  IN IF m2.err # ErrNil THEN m2
                     ELSE flushBatch([m2 EXCEPT !.pool = Append(@, m2.f)])

\* a Close whose inline path does not return: it goes on to the list path
CloseInlineFallthrough(m) ==
  LET rem == Remaining(m.f)
      m0 == IF Len(rem) > 0 /\ Len(m.f.chunks) = 0
            THEN FilesPut([m EXCEPT !.pool = Append(@, m.f)], m.f.id, EncodeInline(rem))
            ELSE m
      m1 == IF Len(rem) > 0 /\ Len(m.f.chunks) > 0 THEN ChunkerFlush(m0) ELSE m0
  IN IF m1.err # ErrNil THEN m1
     ELSE LET m2 == flushBatch(m1)
          IN IF m2.err # ErrNil THEN m2
             ELSE FilesPut([m2 EXCEPT !.pool = Append(@, m2.f)],
                           m2.f.id, EncodeList(m2.f.chunks))

\* a Close without the inline path: the remainder is always a chunk
CloseNoInline(m) ==
  LET rem == Remaining(m.f)
      m1 == IF Len(rem) > 0 THEN ChunkerFlush(m) ELSE m
  IN IF m1.err # ErrNil THEN m1
     ELSE LET m2 == flushBatch(m1)
          IN IF m2.err # ErrNil THEN m2
             ELSE FilesPut([m2 EXCEPT !.pool = Append(@, m2.f)],
                           m2.f.id, EncodeList(m2.f.chunks))

\* wfile.Close of the batched writer
Close(m) ==
  LET rem == Remaining(m.f)
  IN IF Len(rem) > 0 /\ Len(m.f.chunks) = 0
     THEN \* inline: release the wfile, then put uint32(0) + rem
          FilesPut([m EXCEPT !.pool = Append(@, m.f)], m.f.id, EncodeInline(rem))
     ELSE LET m1 == IF Len(rem) > 0 THEN ChunkerFlush(m) ELSE m
          IN IF m1.err # ErrNil THEN m1
             ELSE LET m2 == flushBatch(m1)
                  IN IF m2.err # ErrNil THEN m2
                     ELSE FilesPut([m2 EXCEPT !.pool = Append(@, m2.f)],
                                   m2.f.id, EncodeList(m2.f.chunks))

\* a wfile as newWFile constructs it
FreshWFile(id) ==
  [id |-> id, chunks |-> <<>>, batch |-> <<>>, batchSize |-> 0,
   buf |-> [i \in 1..chunkSize |-> 0], offset |-> 0]

\* a newWFile that keeps the chunk list of the pooled wfile
RecycleKeepChunks(x, id) ==
  [x EXCEPT !.id = id, !.offset = 0]

\* newWFile on a pooled wfile x: new id, chunks[:0], Chunker.Reset()
RecycleWFile(x, id) ==
  [x EXCEPT !.id = id, !.chunks = <<>>, !.offset = 0]

(* ---------------------------------------------------------------------- *)
(* The unbatched writer: unnamed/part_002                                 *)
(* ---------------------------------------------------------------------- *)

\* a variant that lists the hash before the put (used to test the
\* properties)
writeChunkEager(m) ==
  LET data == SubSeq(m.f.buf, 1, m.f.offset)
      hash == Sha1(data)
      found == ~Fails(m) /\ hash \in DOMAIN m.chunks
      m1 == [m EXCEPT !.k = @ + 1, !.f.offset = 0,
                      !.f.chunks = Append(@, hash)]
  IN IF found
     THEN [m1 EXCEPT !.g.ev = Append(@, Event(hash, data, "hit", FALSE))]
     ELSE LET ok == ~Fails(m1)
              get == IF Fails(m) THEN "fault" ELSE "miss"
          IN [m1 EXCEPT !.k = @ + 1,
                        !.chunks = IF ok THEN DbPut(@, hash, data) ELSE @,
                        !.err = IF ok THEN ErrNil ELSE ErrEngine,
                        !.g.ev = Append(@, Event(hash, data, get, TRUE))]

\* wfile.writeChunk of the unbatched writer
writeChunk(m) ==
  LET data == SubSeq(m.f.buf, 1, m.f.offset)
      hash == Sha1(data)
      found == ~Fails(m) /\ hash \in DOMAIN m.chunks
      m1 == [m EXCEPT !.k = @ + 1, !.f.offset = 0]
  IN IF found
     THEN [m1 EXCEPT !.f.chunks = Append(@, hash),
                     !.g.ev = Append(@, Event(hash, data, "hit", FALSE))]
     ELSE LET ok == ~Fails(m1)
              get == IF Fails(m) THEN "fault" ELSE "miss"
          IN [m1 EXCEPT !.k = @ + 1,
                        !.chunks = IF ok THEN DbPut(@, hash, data) ELSE @,
                        !.f.chunks = IF ok THEN Append(@, hash) ELSE @,
                        !.err = IF ok THEN ErrNil ELSE ErrEngine,
                        !.g.ev = Append(@, Event(hash, data, get, TRUE))]

\* a variant that returns after the first chunk it completes (used to test
\* the properties)
WriteOneChunk(m, p) ==
  IF Len(p) = 0 THEN m
  ELSE LET c == Min(chunkSize - m.f.offset, Len(p))
           m1 == [m EXCEPT !.f.buf = CopyAt(@, m.f.offset, SubSeq(p, 1, c)),
                           !.f.offset = @ + c,
                           !.n = @ + c]
       IN IF m1.f.offset = chunkSize THEN writeChunk(m1) ELSE m1

RECURSIVE Write(_, _)
\* wfile.Write of the unbatched writer
Write(m, p) ==
  IF Len(p) = 0 THEN m
  ELSE LET c == Min(chunkSize - m.f.offset, Len(p))
           rest == SubSeq(p, c + 1, Len(p))
           m1 == [m EXCEPT !.f.buf = CopyAt(@, m.f.offset, SubSeq(p, 1, c)),
                           !.f.offset = @ + c,
                           !.n = @ + c]
       IN IF m1.f.offset = chunkSize
          THEN LET m2 == writeChunk(m1)
               IN IF m2.err # ErrNil THEN m2 ELSE Write(m2, rest)
          ELSE Write(m1, rest)

\* wfile.Close of the unbatched writer
CloseUnbatched(m) ==
  IF m.f.offset > 0 /\ Len(m.f.chunks) = 0
  THEN FilesPut(m, m.f.id, EncodeInlineBuf(m.f.buf, m.f.offset))
  ELSE LET m1 == IF m.f.offset > 0 THEN writeChunk(m) ELSE m
       IN IF m1.err # ErrNil THEN m1
          ELSE FilesPut(m1, m1.f.id, EncodeList(m1.f.chunks))

(* ---------------------------------------------------------------------- *)
(* textutil.SplitFieldsOptions: unnamed/part_003                          *)
(* A text is a sequence of runes, a rune a one-character string.          *)
(* ---------------------------------------------------------------------- *)

\* part_003:11-13
stateValue == 0
stateValueQuoted == 1
stateEscape == 2

\* part_003:19, the one rune U+FFFF
NO_QUOTES == <<"\\uffff">>

\* the longest text split
MaxText == 4

Backslash == "\\"
Runes == {"a", " ", ",", "'", "\"", Backslash}
Texts == UNION {[1..n -> Runes] : n \in 0..MaxText}
\* the separator strings tried
Seps == {<<",">>, <<" ">>}
DefaultQuotes == <<"'", "\"">>

\* a *SplitOptions: nil, or a struct with its two fields
NilOpts == [nil |-> TRUE, Quotes |-> <<>>, Count |-> 0]
SplitOptions ==
  {NilOpts} \cup
  [nil : {FALSE}, Quotes : {<<>>, NO_QUOTES, <<"'">>, <<"\"">>}, Count : {0, 2}]

ErrEscape == "invalid escape sequence"
ErrUnfinished == "unfinished quoted value"
ErrCount == "invalid number of fields"

\* unicode.IsSpace, on the runes of the model
IsSpace(v) == v = " "

RuneSet(str) == {str[i] : i \in 1..Len(str)}

\* part_003:36-39: the quote characters of a call
QuotesFor(o) ==
  IF ~o.nil /\ o.Quotes # NO_QUOTES THEN o.Quotes ELSE DefaultQuotes

\* part_003:40-52: the locals before the loop; quoted and bufq record, for
\* the properties, which fields had a quoted part
SplitStart ==
  [state |-> stateValue, curQuote |-> "", prevState |-> stateValue,
   values |-> <<>>, buf |-> <<>>, err |-> ErrNil,
   quoted |-> <<>>, bufq |-> FALSE]

\* a variant that leaves an escape in the unquoted state (used to test the
\* properties)
SplitRuneForgetState(s, v, sepMap, quotesMap) ==
  IF s.state = stateEscape
  THEN IF v \notin sepMap /\ v \notin quotesMap
       THEN [s EXCEPT !.err = ErrEscape]
       ELSE [s EXCEPT !.buf = Append(@, v), !.state = stateValue]
  ELSE IF v = Backslash
  THEN [s EXCEPT !.prevState = s.state, !.state = stateEscape]
  ELSE IF v \in sepMap /\ s.state # stateValueQuoted
  THEN [s EXCEPT !.values = Append(@, s.buf), !.buf = <<>>,
                 !.quoted = Append(@, s.bufq), !.bufq = FALSE]
  ELSE IF v \in quotesMap
  THEN IF s.state = stateValueQuoted
       THEN IF v = s.curQuote
            THEN [s EXCEPT !.state = stateValue]
            ELSE [s EXCEPT !.buf = Append(@, v)]
       ELSE IF Len(s.buf) = 0
            THEN [s EXCEPT !.curQuote = v, !.state = stateValueQuoted,
                           !.bufq = TRUE]
            ELSE [s EXCEPT !.buf = Append(@, v)]
  ELSE IF Len(s.buf) = 0 /\ s.state # stateValueQuoted /\ IsSpace(v)
       THEN s
       ELSE [s EXCEPT !.buf = Append(@, v)]

\* part_003:53-88: the loop body on rune v
SplitRune(s, v, sepMap, quotesMap) ==
  IF s.state = stateEscape
  THEN IF v \notin sepMap /\ v \notin quotesMap
       THEN [s EXCEPT !.err = ErrEscape]
       ELSE [s EXCEPT !.buf = Append(@, v), !.state = s.prevState]
  ELSE IF v = Backslash
  THEN [s EXCEPT !.prevState = s.state, !.state = stateEscape]
  ELSE IF v \in sepMap /\ s.state # stateValueQuoted
  THEN [s EXCEPT !.values = Append(@, s.buf), !.buf = <<>>,
                 !.quoted = Append(@, s.bufq), !.bufq = FALSE]
  ELSE IF v \in quotesMap
  THEN IF s.state = stateValueQuoted
       THEN IF v = s.curQuote
            THEN [s EXCEPT !.state = stateValue]
            ELSE [s EXCEPT !.buf = Append(@, v)]
       ELSE IF Len(s.buf) = 0
            THEN [s EXCEPT !.curQuote = v, !.state = stateValueQuoted,
                           !.bufq = TRUE]
            ELSE [s EXCEPT !.buf = Append(@, v)]
  ELSE IF Len(s.buf) = 0 /\ s.state # stateValueQuoted /\ IsSpace(v)
       THEN s
       ELSE [s EXCEPT !.buf = Append(@, v)]

RECURSIVE SplitLoop(_, _, _, _)
\* part_003:53: range over the runes, left at the first error
SplitLoop(s, text, sepMap, quotesMap) ==
  IF text = <<>> \/ s.err # ErrNil THEN s
  ELSE SplitLoop(SplitRune(s, Head(text), sepMap, quotesMap), Tail(text),
                 sepMap, quotesMap)

\* part_003:89-100: after the loop
SplitEnd(s, o) ==
  LET s1 == IF Len(s.buf) > 0
            THEN IF s.state = stateValueQuoted
                 THEN [s EXCEPT !.err = ErrUnfinished]
                 ELSE [s EXCEPT !.values = Append(@, s.buf),
                                !.quoted = Append(@, s.bufq)]
            ELSE s
  IN IF s1.err = ErrNil /\ ~o.nil /\ o.Count > 0 /\ o.Count # Len(s1.values)
     THEN [s1 EXCEPT !.err = ErrCount]
     ELSE s1

\* SplitFieldsOptions(text, sep, opts): the values and the error returned
\* (values is nil with an error), and which characters quoted
SplitFieldsOptions(txt, sp, o) ==
  LET quotesMap == RuneSet(QuotesFor(o))
      s == SplitLoop(SplitStart, txt, RuneSet(sp), quotesMap)
      e == IF s.err = ErrNil THEN SplitEnd(s, o) ELSE s
  IN [done |-> TRUE,
      values |-> IF e.err = ErrNil THEN e.values ELSE <<>>,
      quoted |-> IF e.err = ErrNil THEN e.quoted ELSE <<>>,
      err |-> e.err,
      quotes |-> quotesMap]

\* SplitFields(text, sep)
SplitFields(txt, sp) == SplitFieldsOptions(txt, sp, NilOpts)

\* no call made yet
NoOut == [done |-> FALSE, values |-> <<>>, quoted |-> <<>>, err |-> ErrNil,
          quotes |-> {}]

(* ---------------------------------------------------------------------- *)
(* orm.Register: unnamed/part_001, lines 38-214                           *)
(* ---------------------------------------------------------------------- *)

\* the most Register calls in one behaviour
MaxRegs == 3

\* o.tags of the Orm a call is made on
Tags == {"sql", "nosql"}
\* struct types with usable fields
StructTypes == {"User", "Post"}
\* "int" is no struct (types.NewStruct fails), "Bad" is a struct whose
\* fields o.fields rejects
GoTypes == StructTypes \cup {"int", "Bad"}
\* a *Options: nil, or a struct with a TableName
NilOptions == [nil |-> TRUE, TableName |-> ""]
Options == {NilOptions} \cup [nil : {FALSE}, TableName : {"user", "t"}]

ErrStruct == "not a struct"
ErrFields == "invalid fields"
ErrDuplicate == "duplicate ORM model name"

\* defaultName of the types of the model (package main): the type's name
\* in lower case with underscores
defaultName(typ) ==
  CASE typ = "User" -> "user"
    [] typ = "Post" -> "post"
    [] typ = "Bad" -> "bad"
    [] OTHER -> "int"

\* model.Type(): the struct type the fields were read from
ModelType(md) == md.fields.Type

\* the registries (r.names, r.types) after a Register that always makes
\* its model the one of the type
RegisterLastWins(r, tags, t, opt) ==
  IF t \notin StructTypes \cup {"Bad"}
  THEN [r EXCEPT !.err = ErrStruct]
  ELSE
    LET name == IF ~opt.nil THEN opt.TableName ELSE defaultName(t)
        r1 == IF tags \notin DOMAIN r.names
              THEN [r EXCEPT !.names = (tags :> <<>>) @@ @,
                             !.types = (tags :> <<>>) @@ @]
              ELSE r
    IN IF name \in DOMAIN r1.names[tags]
       THEN [r1 EXCEPT !.err = ErrDuplicate]
       ELSE IF t = "Bad"
       THEN [r1 EXCEPT !.err = ErrFields]
       ELSE
         LET md == [fields |-> [Type |-> t], options |-> opt,
                    tableName |-> name, tags |-> tags]
         IN [r1 EXCEPT !.names[tags] = (name :> md) @@ @,
                       !.types[tags] = (ModelType(md) :> md) @@ @,
                       !.table = md, !.err = ErrNil]

\* a variant without the duplicate check (used to test the properties)
RegisterOverwrite(r, tags, t, opt) ==
  IF t \notin StructTypes \cup {"Bad"}
  THEN [r EXCEPT !.err = ErrStruct]
  ELSE
    LET name == IF ~opt.nil THEN opt.TableName ELSE defaultName(t)
        r1 == IF tags \notin DOMAIN r.names
              THEN [r EXCEPT !.names = (tags :> <<>>) @@ @,
                             !.types = (tags :> <<>>) @@ @]
              ELSE r
    IN IF t = "Bad"
       THEN [r1 EXCEPT !.err = ErrFields]
       ELSE
         LET md == [fields |-> [Type |-> t], options |-> opt,
                    tableName |-> name, tags |-> tags]
         IN [r1 EXCEPT !.names[tags] = (name :> md) @@ @,
                       !.types[tags] = IF ModelType(md) \in DOMAIN @ THEN @
                                       ELSE (ModelType(md) :> md) @@ @,
                       !.table = md, !.err = ErrNil]

\* (o *Orm) Register(t, opt) with o.tags = tags, on the registries
\* r.names (_nameRegistry) and r.types (_typeRegistry); r.table is the
\* model of the *Table returned, r.err the error
Register(r, tags, t, opt) ==
  IF t \notin StructTypes \cup {"Bad"}
  THEN [r EXCEPT !.err = ErrStruct]
  ELSE
    LET name == IF ~opt.nil THEN opt.TableName ELSE defaultName(t)
        r1 == IF tags \notin DOMAIN r.names
              THEN [r EXCEPT !.names = (tags :> <<>>) @@ @,
                             !.types = (tags :> <<>>) @@ @]
              ELSE r
    IN IF name \in DOMAIN r1.names[tags]
       THEN [r1 EXCEPT !.err = ErrDuplicate]
       ELSE IF t = "Bad"
       THEN [r1 EXCEPT !.err = ErrFields]
       ELSE
         LET md == [fields |-> [Type |-> t], options |-> opt,
                    tableName |-> name, tags |-> tags]
         IN [r1 EXCEPT !.names[tags] = (name :> md) @@ @,
                       !.types[tags] = IF ModelType(md) \in DOMAIN @ THEN @
                                       ELSE (ModelType(md) :> md) @@ @,
                       !.table = md, !.err = ErrNil]

\* no model
NoModel == [fields |-> [Type |-> "none"], options |-> NilOptions,
            tableName |-> "", tags |-> ""]

(* ---------------------------------------------------------------------- *)
(* State                                                                  *)
(* ---------------------------------------------------------------------- *)

VARIABLES
  impl,      \* which writer the driver is built with
  chunks,    \* drv.chunks: hash -> chunk bytes
  files,     \* drv.files: file id -> record
  pool,      \* wfilesPool: the released wfiles
  sess,      \* per caller: its session (the wfile it holds and its history)
  clients,   \* how many callers run a session, one after the other
  mayFail    \* how many more engine calls may fail

\* a call of textutil.SplitFields / SplitFieldsOptions
VARIABLES
  text,      \* the text argument
  sep,       \* the sep argument
  opts,      \* the opts argument
  out        \* what the call returned

\* the registries of package orm
VARIABLES
  nameRegistry,  \* _nameRegistry: tags -> table name -> model
  typeRegistry,  \* _typeRegistry: tags -> struct type -> model
  calls          \* the Register calls made so far and what they returned

\* goroutines sharing wfilesPool, a step per shared access; chunks and
\* files are the key spaces of driver 1
VARIABLES
  heap,      \* the wfile objects allocated so far; a *wfile is an index
  hdrv,      \* the drv field of each wfile object: driver 1 or 2
  drv2,      \* the chunks and files key spaces of driver 2
  pooled,    \* wfilesPool as *wfile values
  proc       \* per caller: where its goroutine is, and its locals

wvars == <<impl, chunks, files, pool, sess, clients, mayFail>>
tvars == <<text, sep, opts, out>>
ovars == <<nameRegistry, typeRegistry, calls>>
pvars == <<heap, hdrv, drv2, pooled, proc>>
vars == <<wvars, tvars, ovars, pvars>>

\* no model registered
NoOrm == nameRegistry = <<>> /\ typeRegistry = <<>> /\ calls = <<>>

\* no call of textutil in this behaviour
NoSplit == text = <<>> /\ sep = <<>> /\ opts = NilOpts /\ out = NoOut

NoDb == <<>>

\* the history of a session that has not started
NoHistory ==
  [data |-> <<>>,      \* the bytes passed to Write so far, in order
   calls |-> 0,        \* Write calls that carried bytes: 0, 1, 2 for more
   wfail |-> FALSE,    \* some Write returned an error
   faulted |-> FALSE,  \* the engine failed a call of this session
   ev |-> <<>>,        \* the chunks handled by WriteChunk / writeChunk
   flushes |-> 0,      \* batch writes issued
   wflushes |-> 0,     \* batch writes issued by Write calls (before Close)
   flushed |-> 0,      \* pairs written by batch writes that succeeded
   dropped |-> {},     \* pairs of the batch writes that failed
   puts |-> 0,         \* puts issued to the files space
   lastErr |-> ErrNil, \* what the last Write returned
   closeErr |-> ErrNil]

NoSession == [st |-> "new", f |-> FreshWFile("none"), g |-> NoHistory]

ZeroChunk == [i \in 1..chunkSize |-> 0]
OneChunk == [i \in 1..chunkSize |-> 1]

\* chunk spaces a driver can open: empty, or holding a chunk stored earlier
ValidStores == {NoDb, DbPut(NoDb, Sha1(ZeroChunk), ZeroChunk)}

\* a chunk space holding, under the hash of a chunk, a value of another
\* length (a truncated value, or a colliding one)
SeededStores == {DbPut(NoDb, Sha1(OneChunk), <<1>>)}

\* the record of a one-byte file stored inline under "a" by an earlier run
OldRecord == EncodeInline(<<1>>)
OldFiles == {NoDb, DbPut(NoDb, "a", OldRecord)}

Machine(c, F) ==
  [f |-> sess[c].f, chunks |-> chunks, files |-> files, pool |-> pool,
   k |-> 0, fail |-> F, err |-> ErrNil, n |-> 0, g |-> sess[c].g]

\* the fault plans of a handler invocation that makes at most n engine calls
FaultPlans(n) == {F \in SUBSET (1..n) : Cardinality(F) <= mayFail}

\* the most engine calls Write(p) makes on caller c's wfile: two a chunk
WriteCalls(c, p) == 2 * ((sess[c].f.offset + Len(p)) \div chunkSize)

\* the most engine calls Close makes: a chunk, a batch write, a put
CloseCalls == 4

\* the bytes caller c may still write
Room(c) == MaxLen - Len(sess[c].g.data)

\* callers run their sessions one after the other
MayStart(c) ==
  /\ c <= clients
  /\ \A d \in Callers : d < c => sess[d].st = "closed"

\* with two callers the first stores file "a"
IdsFor(c) == IF clients = 2 /\ c = 1 THEN {"a"} ELSE Ids

\* a goroutine that has not called newWFile
NoProc ==
  [pc |-> "idle",      \* idle; open: between calls; in a call: write,
                       \* wflush, cflushT, cflush, release, fput
   call |-> "none",    \* the call it is in: none, write, close
   closed |-> FALSE,   \* its Close has returned
   again |-> "no",     \* the call it made after Close returned, if any
   drv |-> 1,          \* the driver it passes to newWFile
   h |-> 0,            \* the *wfile it was given
   id |-> "none",      \* Close: id := f.id
   todo |-> <<>>,      \* Write: the bytes of p not yet fed
   rec |-> <<>>,       \* Close: data, the record built
   g |-> NoHistory]

\* no goroutine in this behaviour
NoProcs ==
  /\ heap = <<>> /\ hdrv = <<>> /\ pooled = <<>>
  /\ drv2 = [chunks |-> NoDb, files |-> NoDb]
  /\ proc = [c \in Callers |-> NoProc]

TypeOK ==
  /\ impl \in {"batched", "unbatched"}
  /\ mayFail \in 0..MaxFaults
  /\ \A c \in Callers : sess[c].st \in {"new", "open", "closed"}

\* one caller on an engine that may fail, or two callers on one that does not
Init0 ==
  /\ impl \in {"batched", "unbatched"}
  /\ pool = <<>>
  /\ sess = [c \in Callers |-> NoSession]
  /\ \/ clients = 1 /\ mayFail = MaxFaults /\ files \in OldFiles
     \/ clients = 2 /\ mayFail = 0 /\ files = NoDb
  /\ NoSplit /\ NoOrm /\ NoProcs

Init == Init0 /\ chunks \in ValidStores

InitSeeded == Init0 /\ chunks \in SeededStores

(* ---------------------------------------------------------------------- *)
(* Actions: one per call of the writer's API                              *)
(* ---------------------------------------------------------------------- *)

\* newWFile(drv, id) of the batched writer: a pooled wfile if there is one
NewWFile(c, id) ==
  /\ impl = "batched"
  /\ sess[c].st = "new"
  /\ MayStart(c)
  /\ IF pool # <<>>
     THEN /\ sess' = [sess EXCEPT ![c].st = "open",
                                  ![c].f = RecycleWFile(Head(pool), id)]
          /\ pool' = Tail(pool)
     ELSE /\ sess' = [sess EXCEPT ![c].st = "open", ![c].f = FreshWFile(id)]
          /\ pool' = pool
  /\ UNCHANGED <<impl, chunks, files, clients, mayFail>>
  /\ UNCHANGED <<tvars, ovars, pvars>>

\* newWFile(drv, id) of the unbatched writer
NewWFileUnbatched(c, id) ==
  /\ impl = "unbatched"
  /\ sess[c].st = "new"
  /\ MayStart(c)
  /\ sess' = [sess EXCEPT ![c].st = "open", ![c].f = FreshWFile(id)]
  /\ UNCHANGED <<impl, chunks, files, pool, clients, mayFail>>
  /\ UNCHANGED <<tvars, ovars, pvars>>

\* what a Write call leaves behind
AfterWrite(c, p, m) ==
  /\ m.fail \subseteq 1..m.k
  /\ chunks' = m.chunks
  /\ mayFail' = mayFail - Cardinality(m.fail)
  /\ sess' = [sess EXCEPT
       ![c].f = m.f,
       ![c].g = [m.g EXCEPT !.data = @ \o p,
                            !.calls = IF p = <<>> THEN @ ELSE Min(@ + 1, 2),
                            !.wfail = @ \/ m.err # ErrNil,
                            !.faulted = @ \/ m.fail # {},
                            !.wflushes = m.g.flushes,
                            !.lastErr = m.err]]
  /\ UNCHANGED <<impl, files, pool, clients>>
  /\ UNCHANGED <<tvars, ovars, pvars>>

\* f.Write(p) on the batched writer
BatchedWrite(c, p, F) ==
  /\ impl = "batched"
  /\ sess[c].st = "open"
  /\ AfterWrite(c, p, ChunkerWrite(Machine(c, F), p))

\* f.Write(p) on the unbatched writer
UnbatchedWrite(c, p, F) ==
  /\ impl = "unbatched"
  /\ sess[c].st = "open"
  /\ AfterWrite(c, p, Write(Machine(c, F), p))

\* what a Close call leaves behind
AfterClose(c, m) ==
  /\ m.fail \subseteq 1..m.k
  /\ chunks' = m.chunks
  /\ files' = m.files
  /\ pool' = m.pool
  /\ mayFail' = mayFail - Cardinality(m.fail)
  /\ sess' = [sess EXCEPT
       ![c].st = "closed",
       ![c].f = m.f,
       ![c].g = [m.g EXCEPT !.faulted = @ \/ m.fail # {},
                            !.closeErr = m.err]]
  /\ UNCHANGED <<impl, clients>>
  /\ UNCHANGED <<tvars, ovars, pvars>>

\* f.Close() on the batched writer
BatchedClose(c, F) ==
  /\ impl = "batched"
  /\ sess[c].st = "open"
  /\ AfterClose(c, Close(Machine(c, F)))

\* f.Close() on the unbatched writer
UnbatchedClose(c, F) ==
  /\ impl = "unbatched"
  /\ sess[c].st = "open"
  /\ AfterClose(c, CloseUnbatched(Machine(c, F)))

Next ==
  \/ \E c \in Callers, id \in Ids : id \in IdsFor(c) /\ NewWFile(c, id)
  \/ \E c \in Callers, id \in Ids : id \in IdsFor(c) /\ NewWFileUnbatched(c, id)
  \/ \E c \in Callers : \E p \in Strings(0, Room(c)) :
       \E F \in FaultPlans(WriteCalls(c, p)) : BatchedWrite(c, p, F)
  \/ \E c \in Callers : \E p \in Strings(0, Room(c)) :
       \E F \in FaultPlans(WriteCalls(c, p)) : UnbatchedWrite(c, p, F)
  \/ \E c \in Callers, F \in FaultPlans(CloseCalls) : BatchedClose(c, F)
  \/ \E c \in Callers, F \in FaultPlans(CloseCalls) : UnbatchedClose(c, F)

Spec == Init /\ [][Next]_vars

SpecSeeded == InitSeeded /\ [][Next]_vars

(* ---------------------------------------------------------------------- *)
(* Calls of textutil: the arguments are chosen at the start               *)
(* ---------------------------------------------------------------------- *)

\* no writer session in this behaviour
NoWriter ==
  /\ impl = "batched" /\ chunks = NoDb /\ files = NoDb /\ pool = <<>>
  /\ sess = [c \in Callers |-> NoSession] /\ clients = 1 /\ mayFail = 0

InitSplit ==
  /\ NoWriter /\ NoOrm /\ NoProcs
  /\ text \in Texts /\ sep \in Seps /\ opts \in SplitOptions
  /\ out = NoOut

\* SplitFields(text, sep)
CallSplitFields ==
  /\ ~out.done /\ opts.nil
  /\ out' = SplitFields(text, sep)
  /\ UNCHANGED <<wvars, ovars, pvars, text, sep, opts>>

\* SplitFieldsOptions(text, sep, opts) with a non-nil opts
CallSplitFieldsOptions ==
  /\ ~out.done /\ ~opts.nil
  /\ out' = SplitFieldsOptions(text, sep, opts)
  /\ UNCHANGED <<wvars, ovars, pvars, text, sep, opts>>

NextSplit == CallSplitFields \/ CallSplitFieldsOptions

SpecSplit == InitSplit /\ [][NextSplit]_vars

(* ---------------------------------------------------------------------- *)
(* Calls of orm.Register                                                  *)
(* ---------------------------------------------------------------------- *)

InitOrm == NoWriter /\ NoSplit /\ NoOrm /\ NoProcs

\* o.Register(t, opt) on an Orm whose driver has the given tags
CallRegister(tags, t, opt) ==
  /\ Len(calls) < MaxRegs
  /\ LET r == Register([names |-> nameRegistry, types |-> typeRegistry,
                        table |-> NoModel, err |-> ErrNil], tags, t, opt)
     IN /\ nameRegistry' = r.names
        /\ typeRegistry' = r.types
        /\ calls' = Append(calls, [tags |-> tags, type |-> t, opt |-> opt,
                                   table |-> r.table, err |-> r.err])
  /\ UNCHANGED <<wvars, tvars, pvars>>

NextOrm ==
  \E tags \in Tags, t \in GoTypes, opt \in Options : CallRegister(tags, t, opt)

SpecOrm == InitOrm /\ [][NextOrm]_vars

(* ---------------------------------------------------------------------- *)
(* Concurrent sessions of the batched writer.  A goroutine takes a step   *)
(* per access to what it shares with the others: the chunk space, the     *)
(* files space, wfilesPool.  The code between two accesses is part of the *)
(* step that ends it.  m.pc is where the goroutine goes next ("ret": the  *)
(* call returns m.err).                                                   *)
(* ---------------------------------------------------------------------- *)

\* the most bytes the goroutines write, all together
MaxConc == 5

\* at most one engine call fails while goroutines interleave
ConcFaults == Min(MaxFaults, 1)

\* the bytes the goroutines may still write
ConcRoom == MaxConc - Len(proc[1].g.data) - Len(proc[2].g.data)

\* the file each caller writes
FileOf(c) == IF c = 1 THEN "a" ELSE "b"

\* wfilesPool.Put(x): the pool holds x once more
PoolPut(pl, x) == Append(pl, x)

\* wfilesPool.Get() returning the i-th pooled value: it leaves the pool
PoolTake(pl, i) == SubSeq(pl, 1, i - 1) \o SubSeq(pl, i + 1, Len(pl))

\* a WriteChunk that queues no chunk
WriteChunkGetNoQueue(m, data) ==
  LET hash == Sha1(data)
  IN [m EXCEPT !.k = @ + 1, !.f.chunks = Append(@, hash), !.pc = "ret",
               !.g.ev = Append(@, Event(hash, data, "hit", FALSE))]

\* a WriteChunk that calls flushBatch only past the threshold
WriteChunkGetLate(m, data) ==
  LET hash == Sha1(data)
      found == ~Fails(m) /\ hash \in DOMAIN m.chunks
      m1 == [m EXCEPT !.k = @ + 1, !.f.chunks = Append(@, hash), !.pc = "ret"]
  IN IF found
     THEN IF Len(m.chunks[hash]) # Len(data)
          THEN [m1 EXCEPT !.err = ErrCollision,
                          !.g.ev = Append(@, Event(hash, data, "collision", FALSE))]
          ELSE [m1 EXCEPT !.g.ev = Append(@, Event(hash, data, "hit", FALSE))]
     ELSE [m1 EXCEPT !.f.batch = Append(@, <<hash, data>>),
                     !.f.batchSize = @ + Len(data),
                     !.g.ev = Append(@, Event(hash, data,
                                IF Fails(m) THEN "fault" ELSE "miss", TRUE)),
                     !.pc = IF m.f.batchSize + Len(data) > maxBatchSize
                            THEN "flush" ELSE "ret"]

\* wfile.WriteChunk up to its return or its call of flushBatch
WriteChunkGet(m, data) ==
  LET hash == Sha1(data)
      found == ~Fails(m) /\ hash \in DOMAIN m.chunks
      m1 == [m EXCEPT !.k = @ + 1, !.f.chunks = Append(@, hash), !.pc = "ret"]
  IN IF found
     THEN IF Len(m.chunks[hash]) # Len(data)
          THEN [m1 EXCEPT !.err = ErrCollision,
                          !.g.ev = Append(@, Event(hash, data, "collision", FALSE))]
          ELSE [m1 EXCEPT !.g.ev = Append(@, Event(hash, data, "hit", FALSE))]
     ELSE [m1 EXCEPT !.f.batch = Append(@, <<hash, data>>),
                     !.f.batchSize = @ + Len(data),
                     !.g.ev = Append(@, Event(hash, data,
                                IF Fails(m) THEN "fault" ELSE "miss", TRUE)),
                     !.pc = IF m.f.batchSize + Len(data) >= maxBatchSize
                            THEN "flush" ELSE "ret"]

\* the Chunker's Write from the bytes not yet fed to the next chunk emitted
\* (or to its return when no chunk is completed)
WriteStep(m) ==
  LET c == Min(chunkSize - m.f.offset, Len(m.todo))
      m1 == [m EXCEPT !.f.buf = CopyAt(@, m.f.offset, SubSeq(m.todo, 1, c)),
                      !.f.offset = @ + c,
                      !.todo = SubSeq(@, c + 1, Len(@))]
  IN IF m1.f.offset = chunkSize
     THEN LET m2 == WriteChunkGet([m1 EXCEPT !.f.offset = 0], m1.f.buf)
          IN IF m2.err # ErrNil THEN m2
             ELSE IF m2.pc = "flush" THEN [m2 EXCEPT !.pc = "wflush"]
             ELSE IF m2.todo = <<>> THEN m2
             ELSE [m2 EXCEPT !.pc = "write"]
     ELSE [m1 EXCEPT !.pc = "ret"]

\* wfile.Close from its start to its first access: the release of the
\* wfile (inline path), the existence check of the remainder chunk, or
\* nothing yet when there is no remainder
CloseBegin(m) ==
  LET rem == Remaining(m.f)
  IN IF Len(rem) > 0 /\ Len(m.f.chunks) = 0
     THEN [m EXCEPT !.rec = EncodeInline(rem), !.id = m.f.id,
                    !.pool = PoolPut(@, m.h), !.pc = "fput"]
     ELSE IF Len(rem) > 0
     THEN LET m1 == WriteChunkGet([m EXCEPT !.f.offset = 0], rem)
          IN IF m1.err # ErrNil THEN m1
             ELSE IF m1.pc = "flush" THEN [m1 EXCEPT !.pc = "cflushT"]
             ELSE [m1 EXCEPT !.pc = "cflush"]
     ELSE [m EXCEPT !.pc = "cflush"]

\* a call of flushBatch and the code up to the next access: from
\* WriteChunk in Write (wflush), from WriteChunk in Close (cflushT), and
\* the one of Close itself (cflush), after which the record is built
FlushStep(m) ==
  LET m1 == flushBatch(m)
  IN IF m1.err # ErrNil THEN [m1 EXCEPT !.pc = "ret"]
     ELSE IF m.pc = "wflush"
     THEN [m1 EXCEPT !.pc = IF m.todo = <<>> THEN "ret" ELSE "write"]
     ELSE IF m.pc = "cflushT"
     THEN [m1 EXCEPT !.pc = "cflush"]
     ELSE [m1 EXCEPT !.rec = EncodeList(m1.f.chunks), !.id = m1.f.id,
                     !.pc = "release"]

\* a Close that releases the wfile both before and after the put
ReleaseStepTwice(m) ==
  [m EXCEPT !.pool = PoolPut(PoolPut(@, m.h), m.h), !.pc = "fput"]

\* wfile.Close, list path: wfilesPool.Put(f)
ReleaseStep(m) == [m EXCEPT !.pool = PoolPut(@, m.h), !.pc = "fput"]

\* wfile.Close, both paths: return f.drv.files.Put(id, data, nil)
PutStep(m) == [FilesPut(m, m.id, m.rec) EXCEPT !.pc = "ret"]

\* drv.chunks and drv.files of driver d
ChunksOf(d) == IF d = 1 THEN chunks ELSE drv2.chunks
FilesOf(d) == IF d = 1 THEN files ELSE drv2.files

\* the machine a step of caller c runs on: the wfile, and the key spaces
\* of the driver its drv field names when the step is taken
StepMachine(c, F) ==
  [f |-> heap[proc[c].h],
   chunks |-> ChunksOf(hdrv[proc[c].h]), files |-> FilesOf(hdrv[proc[c].h]),
   pool |-> pooled,
   k |-> 0, fail |-> F, err |-> ErrNil, n |-> 0, g |-> proc[c].g,
   pc |-> proc[c].pc, todo |-> proc[c].todo, rec |-> proc[c].rec,
   id |-> proc[c].id, h |-> proc[c].h]

\* what a step of caller c, in the given call, leaves behind
AfterStep(c, call, m) ==
  LET ret == m.pc = "ret"
  IN /\ m.fail \subseteq 1..m.k
     /\ heap' = [heap EXCEPT ![m.h] = m.f]
     /\ hdrv' = hdrv
     /\ IF hdrv[m.h] = 1
        THEN chunks' = m.chunks /\ files' = m.files /\ drv2' = drv2
        ELSE /\ drv2' = [chunks |-> m.chunks, files |-> m.files]
             /\ chunks' = chunks /\ files' = files
     /\ pooled' = m.pool
     /\ mayFail' = mayFail - Cardinality(m.fail)
     /\ proc' = [proc EXCEPT
          ![c].pc = IF ret THEN "open" ELSE m.pc,
          ![c].call = IF ret THEN "none" ELSE call,
          ![c].closed = @ \/ (ret /\ call = "close"),
          ![c].again = IF proc[c].closed /\ proc[c].call = "none" THEN call ELSE @,
          ![c].todo = IF ret THEN <<>> ELSE m.todo,
          ![c].rec = m.rec,
          ![c].id = m.id,
          ![c].g = [m.g EXCEPT
             !.faulted = @ \/ m.fail # {},
             !.wfail = @ \/ (ret /\ call = "write" /\ m.err # ErrNil),
             !.lastErr = IF ret THEN m.err ELSE @,
             !.closeErr = IF ret /\ call = "close" THEN m.err ELSE @]]
     /\ UNCHANGED <<impl, pool, sess, clients, tvars, ovars>>

\* an engine call that may fail while failures remain
StepFaults == IF mayFail > 0 THEN {{}, {1}} ELSE {{}}

\* newWFile(drv, id): wfilesPool.Get() and the reset, or a new wfile
GoNewWFile(c) ==
  /\ proc[c].pc = "idle"
  /\ IF pooled # <<>>
     THEN \E i \in 1..Len(pooled) :
            /\ heap' = [heap EXCEPT ![pooled[i]] = RecycleWFile(@, FileOf(c))]
            /\ hdrv' = [hdrv EXCEPT ![pooled[i]] = proc[c].drv]
            /\ pooled' = PoolTake(pooled, i)
            /\ proc' = [proc EXCEPT ![c].pc = "open", ![c].h = pooled[i]]
     ELSE /\ heap' = Append(heap, FreshWFile(FileOf(c)))
          /\ hdrv' = Append(hdrv, proc[c].drv)
          /\ pooled' = pooled
          /\ proc' = [proc EXCEPT ![c].pc = "open", ![c].h = Len(heap) + 1]
  /\ UNCHANGED <<wvars, tvars, ovars, drv2>>

\* f.Write(p), to its first access or its return
GoWrite(c, p, F) ==
  /\ proc[c].pc = "open" /\ ~proc[c].closed
  /\ Len(p) <= ConcRoom
  /\ AfterStep(c, "write",
       [WriteStep([StepMachine(c, F) EXCEPT !.todo = p])
          EXCEPT !.g.data = @ \o p])

\* f.Write(p) goes on to the next chunk
GoWriteOn(c, F) ==
  /\ proc[c].pc = "write"
  /\ AfterStep(c, proc[c].call, WriteStep(StepMachine(c, F)))

\* f.Close(), to its first access
GoClose(c, F) ==
  /\ proc[c].pc = "open" /\ ~proc[c].closed
  /\ AfterStep(c, "close", CloseBegin(StepMachine(c, F)))

\* flushBatch in Write or in Close
GoFlush(c, F) ==
  /\ proc[c].pc \in {"wflush", "cflushT", "cflush"}
  /\ AfterStep(c, proc[c].call, FlushStep(StepMachine(c, F)))

\* wfilesPool.Put(f) on the list path of Close
GoRelease(c) ==
  /\ proc[c].pc = "release"
  /\ AfterStep(c, proc[c].call, ReleaseStep(StepMachine(c, {})))

\* f.drv.files.Put(id, data) in Close
GoPut(c, F) ==
  /\ proc[c].pc = "fput"
  /\ AfterStep(c, proc[c].call, PutStep(StepMachine(c, F)))

InitPool0 ==
  /\ impl = "batched" /\ pool = <<>> /\ clients = 2
  /\ sess = [c \in Callers |-> NoSession]
  /\ chunks = NoDb /\ files = NoDb
  /\ NoSplit /\ NoOrm /\ NoProcs

InitPool == InitPool0 /\ mayFail = ConcFaults

NextPool ==
  \/ \E c \in Callers : GoNewWFile(c)
  \/ \E c \in Callers : \E p \in Strings(0, MaxConc) : \E F \in StepFaults : GoWrite(c, p, F)
  \/ \E c \in Callers : \E F \in StepFaults : GoWriteOn(c, F)
  \/ \E c \in Callers : \E F \in StepFaults : GoClose(c, F)
  \/ \E c \in Callers : \E F \in StepFaults : GoFlush(c, F)
  \/ \E c \in Callers : GoRelease(c)
  \/ \E c \in Callers : \E F \in StepFaults : GoPut(c, F)

SpecPool == InitPool /\ [][NextPool]_vars

\* each caller has a driver of its own, on engines that do not fail
InitDrivers ==
  /\ impl = "batched" /\ pool = <<>> /\ clients = 2
  /\ sess = [c \in Callers |-> NoSession]
  /\ chunks = NoDb /\ files = NoDb /\ mayFail = 0
  /\ NoSplit /\ NoOrm
  /\ heap = <<>> /\ hdrv = <<>> /\ pooled = <<>>
  /\ drv2 = [chunks |-> NoDb, files |-> NoDb]
  /\ proc = [c \in Callers |-> [NoProc EXCEPT !.drv = c]]

SpecDrivers == InitDrivers /\ [][NextPool]_vars

\* f.Write(p) by a caller whose Close has returned
GoWriteAfterClose(c, p, F) ==
  /\ proc[c].pc = "open" /\ proc[c].closed /\ proc[c].again = "no"
  /\ Len(p) <= ConcRoom
  /\ AfterStep(c, "write",
       [WriteStep([StepMachine(c, F) EXCEPT !.todo = p])
          EXCEPT !.g.data = @ \o p])

\* f.Close() by a caller whose Close has returned
GoCloseAgain(c, F) ==
  /\ proc[c].pc = "open" /\ proc[c].closed /\ proc[c].again = "no"
  /\ AfterStep(c, "close", CloseBegin(StepMachine(c, F)))

\* callers that may also use a session after its Close
NextMisuse ==
  \/ NextPool
  \/ \E c \in Callers : \E p \in Strings(1, MaxConc) : \E F \in StepFaults :
       GoWriteAfterClose(c, p, F)
  \/ \E c \in Callers : \E F \in StepFaults : GoCloseAgain(c, F)

\* on an engine that does not fail
InitMisuse == InitPool0 /\ mayFail = 0

SpecMisuse == InitMisuse /\ [][NextMisuse]_vars

(* ---------------------------------------------------------------------- *)
(* The reader's view of a record (the layout a reader parses)             *)
(* ---------------------------------------------------------------------- *)

\* bytes [0:4] of a record
ChunkCount(rec) == Uint32At(rec, 1)

\* the payload of an inline record
InlinePayload(rec) == SubSeq(rec, 5, Len(rec))

\* where entry i of a chunk-list record starts
EntryPos(i) == 5 + (i - 1) * (4 + sha1Size)

EntryLength(rec, i) == Uint32At(rec, EntryPos(i))

EntryHash(rec, i) == SubSeq(rec, EntryPos(i) + 4, EntryPos(i) + 3 + sha1Size)

\* the stored bytes of a chunk
ChunkBytes(hash) == IF hash \in DOMAIN chunks THEN chunks[hash] ELSE <<"missing">>

RECURSIVE ConcatChunks(_, _)
\* the stored bytes of the chunks of entries i..chunkCount, in listed order
ConcatChunks(rec, i) ==
  IF i > ChunkCount(rec) THEN <<>>
  ELSE ChunkBytes(EntryHash(rec, i)) \o ConcatChunks(rec, i + 1)

\* the file a reader reconstructs from a record
Reconstruct(rec) ==
  IF ChunkCount(rec) = 0 THEN InlinePayload(rec) ELSE ConcatChunks(rec, 1)

(* ---------------------------------------------------------------------- *)
(* Vocabulary of the properties                                           *)
(* ---------------------------------------------------------------------- *)

Closed(c) == sess[c].st = "closed"
ClosedOK(c) == Closed(c) /\ sess[c].g.closeErr = ErrNil
IdOf(c) == sess[c].f.id
Data(c) == sess[c].g.data
Events(c) == sess[c].g.ev

\* no later session has stored a record under the id of c's
Latest(c) == \A d \in Callers : d > c /\ ClosedOK(d) => IdOf(d) # IdOf(c)

\* c's Close returned nil and its record is the one stored under its id
Stored(c) == ClosedOK(c) /\ Latest(c) /\ IdOf(c) \in DOMAIN files

RecordOf(c) == files[IdOf(c)]

RECURSIVE SumLen(_, _)
\* the bytes of the chunks of a history; queuedOnly: those that were queued
SumLen(ev, queuedOnly) ==
  IF ev = <<>> THEN 0
  ELSE (IF queuedOnly /\ ~Head(ev).queued THEN 0 ELSE Head(ev).len)
       + SumLen(Tail(ev), queuedOnly)

(* ---------------------------------------------------------------------- *)
(* Properties                                                             *)
(* ---------------------------------------------------------------------- *)

\* C1 (round trip): when the engine returned no error to a session, its
\* Close leaves under the session's id a record from which a reader gets
\* back exactly the bytes written: the inline payload when chunkCount is 0,
\* otherwise the stored bytes of the listed chunks in listed order.
C1_RoundTrip ==
  \A c \in Callers :
    ClosedOK(c) /\ ~sess[c].g.faulted /\ Latest(c) =>
      /\ IdOf(c) \in DOMAIN files
      /\ Reconstruct(RecordOf(c)) = Data(c)

\* a file of a full chunk and a remainder was stored and reads back
C1_Witness ==
  \E c \in Callers :
    /\ Stored(c) /\ ~sess[c].g.faulted
    /\ Len(Data(c)) > chunkSize /\ Len(Data(c)) % chunkSize # 0
    /\ ChunkCount(RecordOf(c)) = 2
    /\ Reconstruct(RecordOf(c)) = Data(c)

\* C2 (as claimed): every hash listed in a record written by the batched
\* writer is a key of the chunk space.
C2_ListedChunksStored ==
  impl = "batched" =>
    \A c \in Callers :
      Stored(c) =>
        \A i \in 1..ChunkCount(RecordOf(c)) :
          EntryHash(RecordOf(c), i) \in DOMAIN chunks

C4_InliningBoundary ==
  \A c \in Callers :
    Stored(c) /\ ~sess[c].g.wfail =>
      /\ Len(Data(c)) < chunkSize => ChunkCount(RecordOf(c)) = 0
      /\ Len(Data(c)) >= chunkSize => ChunkCount(RecordOf(c)) >= 1

\* both sides of the boundary: a file one byte short of a chunk stored
\* inline under "a" and a file of exactly one chunk stored as a list under "b"
C4_Witness ==
  /\ Stored(1) /\ Stored(2)
  /\ Len(Data(1)) = chunkSize - 1 /\ ChunkCount(RecordOf(1)) = 0
  /\ Len(Data(2)) = chunkSize /\ ChunkCount(RecordOf(2)) = 1

\* C5 (as claimed): when the batched writer, on an engine that returns no
\* error, meets a chunk whose hash is stored with a value of another
\* length, the call returns the collision error, the chunk is not queued,
\* the stored value stays, and the session produces no record.
C5_CollisionAborts ==
  impl = "batched" =>
    \A c \in Callers :
      \A i \in 1..Len(Events(c)) :
        Events(c)[i].get = "collision" /\ ~sess[c].g.faulted =>
          /\ ~Events(c)[i].queued
          /\ sess[c].g.wfail \/ sess[c].g.closeErr = ErrCollision
          /\ Len(ChunkBytes(Events(c)[i].hash)) # Events(c)[i].len
          /\ ~ClosedOK(c)

\* C6 (dedup): when the same content was stored under two ids by two
\* sessions, one after the other, on an engine that returned no error, the
\* chunk space maps each hash to the bytes that hash to it, every chunk of
\* the second session was found by the existence check and none was queued
\* or written, and the second session lists the same hashes as the first.
C6_Dedup ==
  ClosedOK(1) /\ ClosedOK(2) /\ IdOf(1) # IdOf(2) /\ Data(1) = Data(2)
  /\ ~sess[1].g.faulted /\ ~sess[2].g.faulted =>
    /\ \A h \in DOMAIN chunks : Sha1(chunks[h]) = h
    /\ \A i \in 1..Len(Events(2)) :
         Events(2)[i].get = "hit" /\ ~Events(2)[i].queued
    /\ sess[2].g.flushed = 0
    /\ sess[2].f.batchSize = 0
    /\ sess[2].f.chunks = sess[1].f.chunks
    /\ Len(Events(2)) = Len(sess[2].f.chunks)

\* a file of two chunks stored twice: the first session did not find a
\* chunk of it, the second found both
C6_Witness ==
  /\ ClosedOK(1) /\ ClosedOK(2) /\ IdOf(1) # IdOf(2) /\ Data(1) = Data(2)
  /\ Len(Events(2)) = 2
  /\ \A i \in 1..Len(Events(2)) : Events(2)[i].get = "hit"
  /\ \E i \in 1..Len(Events(1)) : Events(1)[i].get = "miss"

\* C7 (re-chunk): two sessions that were given the same bytes, however
\* split into Write calls and whatever the chunk space held, leave
\* byte-identical records.
C7_ReChunk ==
  ClosedOK(1) /\ ClosedOK(2) /\ IdOf(1) # IdOf(2) /\ Data(1) = Data(2) =>
    /\ IdOf(1) \in DOMAIN files /\ IdOf(2) \in DOMAIN files
    /\ RecordOf(1) = RecordOf(2)

\* the same bytes, more than a chunk, given to one session in a single
\* Write call and to the other in several, stored as equal chunk-list records
C7_Witness ==
  /\ ClosedOK(1) /\ ClosedOK(2) /\ IdOf(1) # IdOf(2) /\ Data(1) = Data(2)
  /\ sess[1].g.calls = 2 /\ sess[2].g.calls = 1
  /\ Len(Data(1)) > chunkSize
  /\ ChunkCount(RecordOf(1)) >= 2
  /\ RecordOf(1) = RecordOf(2)

\* every history entry of a failed existence check
FaultedChecks(c) == {i \in 1..Len(Events(c)) : Events(c)[i].get = "fault"}

\* C8 (as claimed): a chunk whose existence check failed in the engine is
\* not queued or put, and the error reaches the caller.
C8_GetErrorPropagated ==
  \A c \in Callers :
    \A i \in FaultedChecks(c) :
      /\ ~Events(c)[i].queued
      /\ sess[c].g.wfail \/ sess[c].g.closeErr = ErrEngine

\* C8 (amended): a chunk whose existence check failed in the engine is
\* handled as a chunk that was not found: it is queued (batched writer) or
\* put (unbatched writer), and when the existence checks are the only
\* engine calls that failed, no call of the session returns an error.
C8_GetErrorIgnored ==
  \A c \in Callers :
    /\ \A i \in FaultedChecks(c) : Events(c)[i].queued
    /\ clients = 1 /\ Cardinality(FaultedChecks(c)) = MaxFaults - mayFail =>
         ~sess[c].g.wfail /\ sess[c].g.closeErr = ErrNil

\* an existence check failed in the engine and the session closed with nil
C8_Witness ==
  \E c \in Callers :
    /\ FaultedChecks(c) # {}
    /\ ClosedOK(c) /\ ~sess[c].g.wfail
    /\ ChunkCount(RecordOf(c)) >= 1

\* C9: a Close that returns an error leaves the files space as it was.
C9_FailedCloseKeepsFiles ==
  [][\A c \in Callers :
       sess[c].st = "open" /\ sess'[c].st = "closed"
       /\ sess'[c].g.closeErr # ErrNil => files' = files]_vars

\* a Close of a session for "a" failed and the record stored earlier
\* under "a" is still there
C9_Witness ==
  \E c \in Callers :
    /\ Closed(c) /\ sess[c].g.closeErr = ErrEngine
    /\ IdOf(c) = "a" /\ "a" \in DOMAIN files /\ files["a"] = OldRecord
    /\ Len(Data(c)) >= chunkSize

\* C10 (as claimed): once the chunks handled by the Write calls of a
\* session of the batched writer hold more bytes than maxBatchSize, a batch
\* write has been issued.
C10_FlushOnceWrittenExceeds ==
  impl = "batched" =>
    \A c \in Callers :
      sess[c].st = "open" /\ SumLen(Events(c), FALSE) > maxBatchSize =>
        sess[c].g.flushes >= 1

\* C10 (amended): once the chunks queued by the Write calls of a session of
\* the batched writer (those the existence check did not find) hold
\* maxBatchSize bytes or more, a batch write has been issued before Close,
\* and between calls fewer than maxBatchSize bytes are pending.
C10_FlushOnceQueuedReaches ==
  impl = "batched" =>
    \A c \in Callers :
      /\ sess[c].f.batchSize < maxBatchSize
      /\ sess[c].st = "open" /\ SumLen(Events(c), TRUE) >= maxBatchSize =>
           sess[c].g.flushes >= 1

\* a session still open has queued maxBatchSize bytes or more, a batch
\* write succeeded, and the chunk space holds the chunks of the file
C10_Witness ==
  \E c \in Callers :
    /\ impl = "batched" /\ sess[c].st = "open"
    /\ SumLen(Events(c), TRUE) >= maxBatchSize
    /\ sess[c].g.flushes = 1 /\ sess[c].g.flushed = 2
    /\ \A i \in 1..Len(Events(c)) : Events(c)[i].hash \in DOMAIN chunks

\* C15: a Write puts nothing into the files space; a Close issues at most
\* one put, under the id of its session and under no other key; a Close
\* that returns nil has issued exactly one, and a Close that fails before
\* the record is built (remainder chunk, batch write) has issued none.
C15_OnePutPerClose ==
  [][\A c \in Callers :
       /\ sess[c].st = "open" /\ sess'[c].st = "open" =>
            files' = files /\ sess'[c].g.puts = 0
       /\ sess[c].st = "open" /\ sess'[c].st = "closed" =>
            /\ sess'[c].g.puts \in {0, 1}
            /\ sess'[c].g.closeErr = ErrNil =>
                 sess'[c].g.puts = 1 /\ IdOf(c) \in DOMAIN files'
            /\ sess'[c].g.puts = 0 => sess'[c].g.closeErr # ErrNil
            /\ sess'[c].g.closeErr # ErrNil /\ sess'[c].g.flushes > sess[c].g.flushes
               /\ sess'[c].g.dropped # sess[c].g.dropped => sess'[c].g.puts = 0
            /\ \A k \in (DOMAIN files) \cup (DOMAIN files') :
                 k # IdOf(c) => k \in DOMAIN files /\ k \in DOMAIN files'
                                /\ files'[k] = files[k]]_vars

\* a session for "b" closed with nil after Writes, with one put, and the
\* record stored earlier under "a" is untouched
C15_Witness ==
  \E c \in Callers :
    /\ ClosedOK(c) /\ sess[c].g.puts = 1 /\ IdOf(c) = "b"
    /\ Len(Data(c)) > chunkSize
    /\ "a" \in DOMAIN files /\ files["a"] = OldRecord
    /\ "b" \in DOMAIN files

\* C16 (as claimed): a Close of the batched writer on a session that was
\* given fewer than chunkSize bytes, none included, handles no chunk, issues
\* no batch write, and when it returns nil the record is uint32 0 followed
\* by the bytes written.
C16_InlineSkipsChunks ==
  impl = "batched" =>
    \A c \in Callers :
      Closed(c) /\ Len(Data(c)) < chunkSize =>
        /\ Events(c) = <<>>
        /\ sess[c].g.flushes = 0
        /\ Stored(c) => RecordOf(c) = PutUint32(0) \o Data(c)

\* C16 (amended): a Close of the batched writer on a session that was given
\* between 1 and chunkSize-1 bytes handles no chunk and issues no batch
\* write; on a session that was given no byte it handles no chunk but
\* issues one batch write, of an empty batch, and fails when that write
\* fails.  When Close returns nil the record is uint32 0 followed by the
\* bytes written in both cases.
C16_InlineSkipsChunksUnlessEmpty ==
  impl = "batched" =>
    \A c \in Callers :
      Closed(c) /\ Len(Data(c)) < chunkSize =>
        /\ Events(c) = <<>>
        /\ sess[c].g.flushed = 0
        /\ sess[c].g.flushes = (IF Len(Data(c)) = 0 THEN 1 ELSE 0)
        /\ sess[c].g.puts = 0 => Len(Data(c)) = 0 /\ sess[c].g.closeErr = ErrEngine
        /\ Stored(c) => RecordOf(c) = PutUint32(0) \o Data(c)

\* a one-byte file stored inline without a batch write
C16_Witness ==
  \E c \in Callers :
    /\ impl = "batched" /\ Stored(c) /\ Len(Data(c)) = chunkSize - 1
    /\ sess[c].g.flushes = 0 /\ sess[c].g.puts = 1
    /\ RecordOf(c) = PutUint32(0) \o Data(c)

RECURSIVE PairsLen(_)
\* the bytes of the pairs of a batch
PairsLen(batch) ==
  IF batch = <<>> THEN 0 ELSE Len(Head(batch)[2]) + PairsLen(Tail(batch))

\* the chunk of a dropped pair was queued again after the failed batch write
FedAgain(c, d) ==
  \E i \in (d.at + 1)..Len(Events(c)) :
    Events(c)[i].hash = d.hash /\ Events(c)[i].queued

\* C20: in the batched writer batchSize is the byte count of the pending
\* pairs; a batch write that succeeds stores every pair pending (every
\* chunk queued is stored or still pending while no batch write has
\* failed); after a batch write that failed in a Write call the batch is
\* empty and batchSize is 0; and a pair of a failed batch write is not
\* stored later by the session unless the same chunk is queued again.
C20_FlushResetsBatch ==
  impl = "batched" =>
    \A c \in Callers :
      /\ sess[c].f.batchSize = PairsLen(sess[c].f.batch)
      /\ sess[c].g.dropped = {} =>
           \A i \in 1..Len(Events(c)) :
             Events(c)[i].queued =>
               \/ Events(c)[i].hash \in DOMAIN chunks
               \/ \E j \in 1..Len(sess[c].f.batch) :
                    sess[c].f.batch[j][1] = Events(c)[i].hash
      /\ sess[c].g.lastErr = ErrEngine /\ sess[c].st = "open" =>
           sess[c].f.batch = <<>> /\ sess[c].f.batchSize = 0
      /\ \A d \in sess[c].g.dropped :
           d.hash \in DOMAIN chunks => d.had \/ FedAgain(c, d)

\* a batch write of two pairs failed in a Write call; the session is open
\* with an empty batch and neither chunk is stored
C20_Witness ==
  \E c \in Callers :
    /\ impl = "batched" /\ sess[c].st = "open"
    /\ Cardinality(sess[c].g.dropped) = 2
    /\ sess[c].f.batch = <<>> /\ sess[c].f.batchSize = 0
    /\ \A d \in sess[c].g.dropped : d.hash \notin DOMAIN chunks

(* ---------------------------------------------------------------------- *)
(* Properties of textutil                                                 *)
(* ---------------------------------------------------------------------- *)

\* SplitOptions.Quotes as documented at part_003:22-26
DocumentedQuotes(o) ==
  IF o.nil \/ o.Quotes = <<>> THEN {"'", "\""}
  ELSE IF o.Quotes = NO_QUOTES THEN {}
  ELSE RuneSet(o.Quotes)

\* the runes of the text that a call treated as quote characters
ActsAsQuote == out.quotes \cap RuneSet(text)

\* C17: the characters that act as quotes in a call are ' and " when opts
\* is nil or opts.Quotes is empty, none when opts.Quotes is NO_QUOTES, and
\* the characters of opts.Quotes otherwise.
C17_QuotesAsDocumented ==
  out.done => ActsAsQuote = DocumentedQuotes(opts) \cap RuneSet(text)

\* C18: when SplitFields returns no error, a field that had no quoted part
\* neither begins nor ends with a whitespace character (stated here for the
\* texts without a backslash, so that no whitespace is an escaped one).
C18_NoOuterWhitespace ==
  out.done /\ opts.nil /\ out.err = ErrNil /\ Backslash \notin RuneSet(text) =>
    \A i \in 1..Len(out.values) :
      ~out.quoted[i] /\ out.values[i] # <<>> =>
        /\ ~IsSpace(out.values[i][1])
        /\ ~IsSpace(out.values[i][Len(out.values[i])])

(* ---------------------------------------------------------------------- *)
(* Properties of orm.Register                                             *)
(* ---------------------------------------------------------------------- *)

\* the calls that registered type t with the given tags, by position
Registrations(tags, t) ==
  {i \in 1..Len(calls) :
     calls[i].err = ErrNil /\ calls[i].tags = tags /\ calls[i].type = t}

First(S) == CHOOSE i \in S : \A j \in S : i <= j

\* C19: for each tags, the type registry maps a struct type to the model
\* returned by the first Register call that succeeded for that type with
\* these tags, and holds no entry for a type never registered with them;
\* every model a successful call returned stays in the name registry of
\* its tags under its table name.
C19_FirstRegistrationIsDefault ==
  /\ \A tags \in Tags, t \in GoTypes :
       IF Registrations(tags, t) = {}
       THEN tags \in DOMAIN typeRegistry => t \notin DOMAIN typeRegistry[tags]
       ELSE /\ tags \in DOMAIN typeRegistry
            /\ t \in DOMAIN typeRegistry[tags]
            /\ typeRegistry[tags][t] = calls[First(Registrations(tags, t))].table
  /\ \A i \in 1..Len(calls) :
       calls[i].err = ErrNil =>
         /\ calls[i].tags \in DOMAIN nameRegistry
         /\ calls[i].table.tableName \in DOMAIN nameRegistry[calls[i].tags]
         /\ nameRegistry[calls[i].tags][calls[i].table.tableName] = calls[i].table

\* "User" was registered twice with tags "sql", under the default name and
\* then as table "t": both are in the name registry, the first is the
\* model of the type
C19_Witness ==
  /\ Cardinality(Registrations("sql", "User")) = 2
  /\ typeRegistry["sql"]["User"].tableName = "user"
  /\ "t" \in DOMAIN nameRegistry["sql"]
  /\ nameRegistry["sql"]["t"].fields.Type = "User"
  /\ typeRegistry["sql"]["User"] # nameRegistry["sql"]["t"]

(* ---------------------------------------------------------------------- *)
(* Properties of the sessions of concurrent callers                       *)
(* ---------------------------------------------------------------------- *)

\* the error the specification names for a call on a closed session
ErrInvalidUsage == "invalid usage"

\* C11: every step of a Write or Close made on a session whose Close has
\* returned leaves wfilesPool, the chunk space and the files space as they
\* were, and is the return of the call with an invalid-usage error.
C11_MisuseRejected ==
  [][\A c \in Callers :
       proc'[c].again # "no" /\ proc'[c] # proc[c] =>
         /\ pooled' = pooled /\ chunks' = chunks /\ files' = files
         /\ proc'[c].call = "none"
         /\ proc'[c].g.lastErr = ErrInvalidUsage]_vars

\* the caller has a wfile checked out: newWFile has returned it and Close
\* has neither released it nor returned
Holding(c) ==
  /\ proc[c].pc \in {"open", "write", "wflush", "cflushT", "cflush", "release"}
  /\ ~proc[c].closed

C13_ExclusiveOwnership ==
  /\ \A c \in Callers :
       Holding(c) =>
         /\ \A i \in 1..Len(pooled) : pooled[i] # proc[c].h
         /\ \A d \in Callers : d # c /\ Holding(d) => proc[d].h # proc[c].h
  /\ \A i, j \in 1..Len(pooled) : i # j => pooled[i] # pooled[j]

\* caller 2 writes to the wfile caller 1 has released, while caller 1 is
\* still in Close, before its put of the record
C13_Witness ==
  /\ proc[1].pc = "fput" /\ proc[1].call = "close"
  /\ Holding(2) /\ proc[2].h = proc[1].h
  /\ Len(proc[2].g.data) > 0

\* caller c's Close returned nil after Writes that all returned nil
WroteAndClosed(c) ==
  proc[c].closed /\ proc[c].g.closeErr = ErrNil /\ ~proc[c].g.wfail

\* C14: when two callers have written files "a" and "b" concurrently and
\* both Closes returned nil after Writes that returned nil, every key of
\* the chunk space is the hash of its value and the record of each file
\* reads back to the bytes its caller wrote.
C14_ConcurrentWritersSafe ==
  (\A c \in Callers : WroteAndClosed(c)) =>
    /\ \A hash \in DOMAIN chunks : Sha1(chunks[hash]) = hash
    /\ \A c \in Callers :
         /\ FileOf(c) \in DOMAIN files
         /\ Reconstruct(files[FileOf(c)]) = proc[c].g.data

\* both files start with the same chunk, both existence checks missed it
\* (neither batch write had been made), both Closes returned nil
C14_Witness ==
  /\ \A c \in Callers :
       /\ WroteAndClosed(c)
       /\ Len(proc[c].g.ev) > 0
       /\ proc[c].g.ev[1].get = "miss" /\ proc[c].g.ev[1].len = chunkSize
       /\ Reconstruct(files[FileOf(c)]) = proc[c].g.data
  /\ proc[1].g.ev[1].hash = proc[2].g.ev[1].hash
  /\ proc[1].h # proc[2].h

(* ---------------------------------------------------------------------- *)
(* Properties of the records and of the writers' accounting               *)
(* ---------------------------------------------------------------------- *)

\* bytes (i-1)*chunkSize+1 .. i*chunkSize of a file, fewer for the last
Range(data, i) ==
  SubSeq(data, (i - 1) * chunkSize + 1, Min(i * chunkSize, Len(data)))

\* ceil(n / chunkSize)
CeilChunks(n) == (n + chunkSize - 1) \div chunkSize

\* C21: when a session was given n >= chunkSize bytes and no Write and no
\* Close returned an error, the record is a chunk list of ceil(n/chunkSize)
\* entries, entry i holds the hash of the i-th chunkSize-byte range of the
\* file (the last range is the remainder when n is no multiple), a hash
\* that occurs twice is listed twice, and every range, the remainder
\* included, went through the existence check of WriteChunk / writeChunk.
C21_ChunkListOfRanges ==
  \A c \in Callers :
    ClosedOK(c) /\ ~sess[c].g.wfail /\ Latest(c) /\ Len(Data(c)) >= chunkSize =>
      LET k == CeilChunks(Len(Data(c)))
      IN /\ IdOf(c) \in DOMAIN files
         /\ ChunkCount(RecordOf(c)) = k
         /\ Len(RecordOf(c)) = 4 + k * (4 + sha1Size)
         /\ Len(Events(c)) = k
         /\ \A i \in 1..k :
              /\ EntryHash(RecordOf(c), i) = Sha1(Range(Data(c), i))
              /\ Events(c)[i].hash = Sha1(Range(Data(c), i))
              /\ Events(c)[i].len = Len(Range(Data(c), i))

\* a file whose two chunks are equal: its record lists the hash twice
C21_Witness ==
  \E c \in Callers :
    /\ Stored(c) /\ ~sess[c].g.wfail /\ Len(Data(c)) = 2 * chunkSize
    /\ Range(Data(c), 1) = Range(Data(c), 2)
    /\ ChunkCount(RecordOf(c)) = 2
    /\ EntryHash(RecordOf(c), 1) = EntryHash(RecordOf(c), 2)

\* the wfile is inside WriteChunk, between the enqueue and flushBatch
InWriteChunk(h) ==
  \E c \in Callers : proc[c].h = h /\ proc[c].pc \in {"wflush", "cflushT"}

\* WriteChunk of one chunk of maxBatchSize bytes on wfile h, on an engine
\* that does not fail and does not know the chunk
OversizedChunk(h, data) ==
  WriteChunk([f |-> heap[h], chunks |-> NoDb, files |-> NoDb, pool |-> <<>>,
              k |-> 0, fail |-> {}, err |-> ErrNil, n |-> 0, g |-> NoHistory],
             data)


\* C22: for every wfile of the batched writer, in every state batchSize is
\* the byte count of the pairs pending in its batch, and in every state in
\* which the wfile is not inside a WriteChunk call (so after each return
\* of WriteChunk, within Write and Close as well as between calls)
\* batchSize is below maxBatchSize; a WriteChunk of a single chunk of
\* maxBatchSize bytes returns with an empty batch as well.
C22_BatchAccounting ==
  \A h \in 1..Len(heap) :
    /\ heap[h].batchSize = PairsLen(heap[h].batch)
    /\ ~InWriteChunk(h) =>
         /\ heap[h].batchSize < maxBatchSize
         /\ LET r == OversizedChunk(h, [i \in 1..maxBatchSize |-> 0]).f
            IN r.batchSize = 0 /\ r.batch = <<>>

\* WriteChunk has returned in the middle of a Write call after the batch
\* write its chunk triggered, and the batch is empty again
C22_Witness ==
  \E c \in Callers :
    /\ proc[c].pc = "write" /\ proc[c].g.flushes = 1 /\ proc[c].g.flushed = 2
    /\ heap[proc[c].h].batch = <<>> /\ heap[proc[c].h].batchSize = 0
    /\ Len(proc[c].todo) > 0

\* C23: the record a Close puts goes to the files space of the driver its
\* caller passed to newWFile, under the id the caller passed, and to no
\* other driver's files space, whatever another caller's newWFile does
\* with the wfile once Close has released it.
C23_PutGoesToOwnDriver ==
  \A c \in Callers :
    proc[c].closed /\ proc[c].g.closeErr = ErrNil =>
      /\ FileOf(c) \in DOMAIN FilesOf(proc[c].drv)
      /\ FilesOf(proc[c].drv)[FileOf(c)] = proc[c].rec
      /\ \A d \in {1, 2} : d # proc[c].drv => FileOf(c) \notin DOMAIN FilesOf(d)

\* the scanner after the first n runes of the text of the call
Scanned(n) ==
  SplitLoop(SplitStart, SubSeq(text, 1, n), RuneSet(sep), out.quotes)

\* the rune at position i of the text is a backslash that starts an escape
Escapes(i) ==
  /\ i \in 1..Len(text) /\ text[i] = Backslash
  /\ Scanned(i - 1).err = ErrNil /\ Scanned(i - 1).state # stateEscape

RECURSIVE OnlyEscapes(_)
\* the text holds nothing but the rune a and escaped separators and quotes
OnlyEscapes(t) ==
  IF t = <<>> THEN TRUE
  ELSE IF Head(t) = "a" THEN OnlyEscapes(Tail(t))
  ELSE /\ Head(t) = Backslash /\ Len(t) >= 2
       /\ t[2] \in RuneSet(sep) \cup out.quotes
       /\ OnlyEscapes(SubSeq(t, 3, Len(t)))

RECURSIVE Unescaped(_)
\* the text without the backslash of each escape
Unescaped(t) ==
  IF t = <<>> THEN <<>>
  ELSE IF Head(t) = Backslash /\ Len(t) >= 2
       THEN <<t[2]>> \o Unescaped(SubSeq(t, 3, Len(t)))
       ELSE <<Head(t)>> \o Unescaped(Tail(t))

\* C24: in SplitFields and SplitFieldsOptions a backslash escapes the next
\* rune. If that rune is a separator or a quote it is appended to the field
\* being read, no field is finished, no quote is opened or closed, and the
\* scanner is back in the state it had before the backslash; if it is any
\* other rune the call returns the invalid-escape error and no fields. A
\* text made of ordinary runes and escaped separators and quotes is one
\* field, the text without its backslashes.
C24_BackslashEscapes ==
  out.done =>
    /\ \A i \in 1..(Len(text) - 1) :
         Escapes(i) =>
           IF text[i + 1] \in RuneSet(sep) \cup out.quotes
           THEN /\ Scanned(i + 1).err = ErrNil
                /\ Scanned(i + 1).buf = Append(Scanned(i - 1).buf, text[i + 1])
                /\ Scanned(i + 1).values = Scanned(i - 1).values
                /\ Scanned(i + 1).state = Scanned(i - 1).state
                /\ Scanned(i + 1).curQuote = Scanned(i - 1).curQuote
           ELSE out.err = ErrEscape /\ out.values = <<>>
    /\ OnlyEscapes(text) /\ text # <<>> /\ (opts.nil \/ opts.Count = 0) =>
         out.err = ErrNil /\ out.values = <<Unescaped(text)>>

\* "a\,a" split at commas: one field a,a
C24_Witness ==
  /\ out.done /\ text = <<"a", Backslash, ",", "a">> /\ sep = <<",">>
  /\ out.err = ErrNil /\ out.values = <<<<"a", ",", "a">>>>

\* C25: a call whose text ends inside a quoted value (the scanner is in
\* stateValueQuoted after the last rune, whether or not runes followed the
\* opening quote) or directly after a backslash (stateEscape) returns an
\* error.
C25_UnfinishedIsError ==
  out.done /\ Scanned(Len(text)).err = ErrNil
           /\ Scanned(Len(text)).state \in {stateValueQuoted, stateEscape}
    => out.err # ErrNil

\* the bytes a step appended to the history of caller c: the p of its Write
Written(c) ==
  SubSeq(sess'[c].g.data, Len(sess[c].g.data) + 1, Len(sess'[c].g.data))

\* what Write(p) of the unbatched writer returns on caller c's wfile, for
\* every way the engine may fail during the call
WriteReturnsAll(c, p) ==
  \A F \in FaultPlans(WriteCalls(c, p)) :
    LET m == Write(Machine(c, F), p)
    IN /\ m.n <= Len(p)
       /\ m.err = ErrNil => m.n = Len(p)
       /\ m.err = ErrNil => m.f.offset = (sess[c].f.offset + Len(p)) % chunkSize
       /\ m.f.offset \in 0..(chunkSize - 1)

\* the last n bytes of a byte string
LastBytes(d, n) == SubSeq(d, Len(d) - n + 1, Len(d))

\* C26: in the unbatched writer every Write(p) returns (the recursion of
\* Write ends for every p and every offset a session reaches); at every
\* Write step, whatever the engine does, n <= len(p), and a nil error
\* comes with n = len(p); between calls 0 <= offset < chunkSize, and as
\* long as no Write returned an error offset is the number of bytes
\* written since the last completed chunk and buf[0:offset] holds them.
C26_WriteReturns ==
  /\ [](impl = "unbatched" =>
          \A c \in Callers :
            /\ sess[c].f.offset \in 0..(chunkSize - 1)
            /\ sess[c].st = "open" /\ ~sess[c].g.wfail =>
                 /\ sess[c].f.offset = Len(sess[c].g.data) % chunkSize
                 /\ SubSeq(sess[c].f.buf, 1, sess[c].f.offset)
                      = LastBytes(sess[c].g.data, sess[c].f.offset))
  /\ [][impl = "unbatched" =>
          \A c \in Callers :
            sess[c].st = "open" /\ sess'[c].st = "open" =>
              WriteReturnsAll(c, Written(c))]_vars

\* three bytes written in two calls: one chunk completed, one byte buffered
C26_Witness ==
  /\ impl = "unbatched"
  /\ \E c \in Callers :
       /\ sess[c].st = "open" /\ ~sess[c].g.wfail /\ sess[c].g.calls = 2
       /\ Len(sess[c].g.data) = chunkSize + 1
       /\ Len(sess[c].g.ev) = 1
       /\ sess[c].f.offset = 1
       /\ sess[c].f.buf[1] = sess[c].g.data[chunkSize + 1]

\* C27: in the unbatched writer every hash in a session's chunk list is a
\* key of the chunk space; the list grows by one hash per chunk found or
\* put, and by none for a chunk whose put failed, which the call reports.
C27_ListedChunksStored ==
  impl = "unbatched" =>
    \A c \in Callers :
      /\ \A i \in 1..Len(sess[c].f.chunks) :
           sess[c].f.chunks[i] \in DOMAIN chunks
      /\ Len(sess[c].f.chunks) <= Len(sess[c].g.ev)
      /\ Len(sess[c].f.chunks) < Len(sess[c].g.ev) =>
           sess[c].g.wfail \/ sess[c].g.closeErr # ErrNil

\* a session whose second chunk was not put: two chunks handled, one listed
C27_Witness ==
  /\ impl = "unbatched"
  /\ \E c \in Callers :
       /\ sess[c].st = "open" /\ sess[c].g.lastErr = ErrEngine
       /\ Len(sess[c].g.ev) = 2 /\ Len(sess[c].f.chunks) = 1
       /\ sess[c].g.ev[2].hash \notin DOMAIN chunks

\* the table name a Register call asks for
NameOf(e) == IF e.opt.nil THEN defaultName(e.type) ELSE e.opt.TableName

\* the call a step made
ThisCall == calls'[Len(calls')]

\* the calls that registered name n for tags
NameRegistrations(tags, n) ==
  {i \in 1..Len(calls) :
     calls[i].err = ErrNil /\ calls[i].tags = tags /\ NameOf(calls[i]) = n}

====
